---- MODULE Spec2Model ----
(***************************************************************************)
(* Model of the two clients of mcp-real-debrid:                            *)
(*   - src/jackett.py     JackettAPI: the Torznab feed parser and the      *)
(*                        three search operations built on it;             *)
(*   - src/real_debrid.py RealDebrid: the debrid service client.           *)
(* Every operation is a synchronous, blocking call, so each action is one  *)
(* whole call: it draws the call's inputs and the responses of the remote  *)
(* side, and leaves the requests it issued and its outcome in the state.   *)
(*                                                                         *)
(* Text is a tuple of one-character strings, so that int(), str.strip()    *)
(* and the string comparison of list.sort are computed, not assumed.       *)
(***************************************************************************)
EXTENDS Integers, Sequences, FiniteSets, TLC

VARIABLES
    op,         \* the operation of the call just made ("none" between calls)
    arg,        \* the argument of the last call
    requests,   \* the HTTP requests the last call issued, in order
    responses,  \* the responses (or timeouts) those requests met, in order
    result,     \* how the last call ended: a returned value or a raised error
    remote      \* the debrid service's torrents: id -> absent | added | selected

vars == <<op, arg, requests, responses, result, remote>>

---------------------------------------------------------------------------
(* Bounds of the model.                                                    *)

\* parse_torznab_xml is handed channels of one item of any shape with up to
\* MaxAround further items ahead of it and up to MaxAround after it.
MaxAround == 1

\* The longest channel handed to the three search operations.
MaxSearchItems == 3

\* The longest list of torrents the service answers get_torrents with.
MaxTorrents == 3

---------------------------------------------------------------------------
(* Python values: None, outcomes of an evaluation, exception classes.      *)

None == [some |-> FALSE]
Some(v) == [some |-> TRUE, v |-> v]

NoExc == "none"
Ok(v) == [exc |-> NoExc, val |-> v]
Raise(e) == [exc |-> e]

\* How a call ends.
Return(v) == [kind |-> "return", value |-> v]
Raised(e) == [kind |-> "raise", exc |-> e]

\* The class hierarchy of the exceptions the two clients meet.  pydantic's
\* ValidationError and json's JSONDecodeError derive from ValueError, ET's
\* ParseError from SyntaxError, and everything from Exception.
Bases(e) ==
    CASE e = "ValidationError" -> {"ValidationError", "ValueError", "Exception"}
      [] e = "JSONDecodeError" -> {"JSONDecodeError", "ValueError", "Exception"}
      [] e = "ParseError" -> {"ParseError", "SyntaxError", "Exception"}
      [] OTHER -> {e, "Exception"}

\* except (c1, c2, ...): whether a raised e is caught.
Catches(classes, e) == (Bases(e) \cap classes) # {}

---------------------------------------------------------------------------
(* Text.                                                                   *)

DigitChars == {"0", "1", "2", "3", "4", "5", "6", "7", "8", "9"}

DigitVal(c) ==
    CASE c = "0" -> 0 [] c = "1" -> 1 [] c = "2" -> 2 [] c = "3" -> 3
      [] c = "4" -> 4 [] c = "5" -> 5 [] c = "6" -> 6 [] c = "7" -> 7
      [] c = "8" -> 8 [] c = "9" -> 9

\* The code point of a character, as far as the model's alphabet goes.
Ord(c) ==
    CASE c = " " -> 32 [] c = "+" -> 43 [] c = "-" -> 45
      [] c \in DigitChars -> 48 + DigitVal(c)
      [] c = "I" -> 73 [] c = "R" -> 82 [] c = "S" -> 83
      [] c = "a" -> 97 [] c = "b" -> 98 [] c = "x" -> 120
      [] OTHER -> 63

\* str < str: lexicographic by code point, a proper prefix being smaller.
RECURSIVE StrLess(_, _)
StrLess(s, t) ==
    IF t = <<>> THEN FALSE
    ELSE IF s = <<>> THEN TRUE
    ELSE IF Ord(Head(s)) # Ord(Head(t)) THEN Ord(Head(s)) < Ord(Head(t))
    ELSE StrLess(Tail(s), Tail(t))

RECURSIVE LStrip(_)
LStrip(s) == IF s # <<>> /\ Head(s) = " " THEN LStrip(Tail(s)) ELSE s

RECURSIVE RStrip(_)
RStrip(s) ==
    IF s # <<>> /\ s[Len(s)] = " " THEN RStrip(SubSeq(s, 1, Len(s) - 1)) ELSE s

\* str.strip()
Strip(s) == RStrip(LStrip(s))

RECURSIVE DigitsValue(_)
DigitsValue(s) ==
    IF s = <<>> THEN 0
    ELSE 10 * DigitsValue(SubSeq(s, 1, Len(s) - 1)) + DigitVal(s[Len(s)])

\* int(str): surrounding blanks are dropped, one sign is allowed, and at
\* least one digit must follow; anything else is a ValueError.
Signed(t) == t # <<>> /\ Head(t) \in {"-", "+"}

Unsigned(t) == IF Signed(t) THEN Tail(t) ELSE t

AllDigits(d) == d # <<>> /\ \A i \in 1..Len(d) : d[i] \in DigitChars

IntOfStripped(t) ==
    IF AllDigits(Unsigned(t))
    THEN Ok(IF Head(t) = "-"
            THEN 0 - DigitsValue(Unsigned(t)) ELSE DigitsValue(Unsigned(t)))
    ELSE Raise("ValueError")

PyInt(s) == IntOfStripped(Strip(s))

\* A timestamp literal is abstracted to a one-character tag for the layout it
\* is written in, followed by one digit for the instant it names:
\*   "R" RFC-822 with numeric offset  ("%a, %d %b %Y %H:%M:%S %z")
\*   "I" ISO with fraction and Z      ("%Y-%m-%dT%H:%M:%S.%fZ")
\*   "S" date, blank, time            ("%Y-%m-%d %H:%M:%S")
\* datetime.strptime(text, layout): a text of another layout is a ValueError.
Strptime(text, layout) ==
    IF Len(text) = 2 /\ text[1] = layout /\ text[2] \in DigitChars
    THEN Ok(DigitVal(text[2]))
    ELSE Raise("ValueError")

---------------------------------------------------------------------------
(* XML elements as ElementTree presents them.  An element has a text       *)
(* (None when it is empty) and attributes; a child looked up by name is    *)
(* an element or None.                                                     *)

NoAttrs == [a \in {} |-> <<>>]

Elem(text, attrs) == [text |-> text, attrs |-> attrs]

\* Element.findtext(name): None without the child, "" for an empty child.
FindText(child) ==
    IF ~child.some THEN None
    ELSE IF child.v.text.some THEN child.v.text ELSE Some(<<>>)

\* Element.get(name)
GetAttr(elem, name) ==
    IF name \in DOMAIN elem.attrs THEN Some(elem.attrs[name]) ELSE None

---------------------------------------------------------------------------
(* src/jackett.py: the Torznab parser.                                     *)

\* class Enclosure: url and type are str, length is int.
EnclosureModel(url, length, type) ==
    IF ~url.some \/ ~type.some THEN Raise("ValidationError")
    ELSE Ok([url |-> url.v, length |-> length, type |-> type.v])

\* int(enclosure_elem.get("length", 0))
EnclosureLength(e) ==
    IF "length" \in DOMAIN e.attrs THEN PyInt(e.attrs["length"]) ELSE Ok(0)

\* The body of the try.
BuildEnclosure(e, length) ==
    IF length.exc # NoExc THEN length
    ELSE EnclosureModel(GetAttr(e, "url"), length.val, GetAttr(e, "type"))

\* The except clause (ValueError, TypeError, ValidationError): int() raises
\* the first and Enclosure() the last, so the enclosure that cannot be built
\* becomes None and the item goes on.
EnclosureOrNone(built) == IF built.exc = NoExc THEN Some(built.val) ELSE None

\* The enclosure block of parse_torznab_xml: a missing length counts as 0,
\* and an enclosure that cannot be built is dropped, not the item.
ParseEnclosure(child) ==
    IF ~child.some THEN None
    ELSE EnclosureOrNone(BuildEnclosure(child.v, EnclosureLength(child.v)))

\* The torznab:attr loop: a later attr of the same name replaces an earlier
\* one; an attr without a name, with an empty name or without a value is
\* passed over.
AttrEntry(elem, dict) ==
    IF /\ GetAttr(elem, "name").some
       /\ GetAttr(elem, "name").v # ""
       /\ GetAttr(elem, "value").some
    THEN (elem.attrs["name"] :> elem.attrs["value"]) @@ dict
    ELSE dict

RECURSIVE TorznabAttrs(_, _)
TorznabAttrs(elems, dict) ==
    IF elems = <<>> THEN dict
    ELSE TorznabAttrs(Tail(elems), AttrEntry(Head(elems), dict))

\* The category list: the texts of the category children that have one.
RECURSIVE Categories(_)
Categories(elems) ==
    IF elems = <<>> THEN <<>>
    ELSE IF Head(elems).text.some /\ Head(elems).text.v # <<>>
    THEN <<Head(elems).text.v>> \o Categories(Tail(elems))
    ELSE Categories(Tail(elems))

\* The jackettindexer block: the id attribute and the stripped text.
IndexerId(child) == IF child.some THEN GetAttr(child.v, "id") ELSE None

IndexerName(child) ==
    IF child.some /\ child.v.text.some /\ child.v.text.v # <<>>
    THEN Some(Strip(child.v.text.v))
    ELSE None

\* The data dict parse_torznab_xml fills for one <item>.
ExtractData(item) ==
    [title |-> FindText(item.title),
     guid |-> FindText(item.guid),
     type |-> FindText(item.type),
     comments |-> FindText(item.comments),
     pubDate |-> FindText(item.pubDate),
     size |-> FindText(item.size),
     grabs |-> FindText(item.grabs),
     description |-> FindText(item.description),
     link |-> FindText(item.link),
     indexer_id |-> IndexerId(item.jackettindexer),
     indexer_name |-> IndexerName(item.jackettindexer),
     categories |-> Categories(item.category),
     enclosure |-> ParseEnclosure(item.enclosure),
     torznab_attrs |-> TorznabAttrs(item.attr, NoAttrs)]

RequiredFields ==
    {"title", "guid", "type", "pubDate", "size", "grabs", "link",
     "indexer_id", "indexer_name"}

\* missing_required: the required fields whose value is None.
MissingRequired(data) == {f \in RequiredFields : ~data[f].some}

\* SearchItem.check_non_negative (a "before" validator of size and grabs):
\* int(value), refused when it is below 0.
NonNegativeUnchecked(v) == v

NonNegative(v) ==
    IF v.exc # NoExc THEN v
    ELSE IF v.val < 0 THEN Raise("ValueError")
    ELSE v

check_non_negative(value) ==
    IF ~value.some THEN Raise("TypeError") ELSE NonNegative(PyInt(value.v))

\* SearchItem.parse_pub_date (a "before" validator of pub_date): a value
\* that is no str goes on to pydantic as it is, which rejects None.
parse_pub_date(value) ==
    IF value.some THEN Strptime(value.v, "R") ELSE Raise("ValidationError")

\* pydantic's verdict on SearchItem(**data): a validator's ValueError becomes
\* a ValidationError, a TypeError comes through as it is, and a str field
\* refuses None.
Validated(data, size, grabs, date) ==
    IF "TypeError" \in {size.exc, grabs.exc} THEN Raise("TypeError")
    ELSE IF \/ \E f \in {"title", "guid", "indexer_id", "indexer_name",
                         "type", "link"} : ~data[f].some
            \/ size.exc # NoExc \/ grabs.exc # NoExc \/ date.exc # NoExc
    THEN Raise("ValidationError")
    ELSE Ok([title |-> data.title.v,
             guid |-> data.guid.v,
             indexer_id |-> data.indexer_id.v,
             indexer_name |-> data.indexer_name.v,
             item_type |-> data.type.v,
             comments |-> data.comments,
             pub_date |-> date.val,
             size |-> size.val,
             grabs |-> grabs.val,
             description |-> data.description,
             link |-> data.link.v,
             categories |-> data.categories,
             enclosure |-> data.enclosure,
             torznab_attrs |-> data.torznab_attrs])

\* class SearchItem
SearchItem(data) ==
    Validated(data, check_non_negative(data.size),
              check_non_negative(data.grabs), parse_pub_date(data.pubDate))

\* The except clauses of the try around SearchItem(**data).
ItemHandlersKeyErrorOnly == {"KeyError"}

ItemHandlers == {"ValidationError", "Exception"}

\* The end of the try: the item made is appended; an error the except
\* clauses catch skips the item; any other error leaves the loop.
Constructed(made) ==
    IF made.exc = NoExc THEN [kind |-> "append", item |-> made.val]
    ELSE IF Catches(ItemHandlers, made.exc) THEN [kind |-> "skip"]
    ELSE [kind |-> "leave", exc |-> made.exc]

\* The required-field check ahead of SearchItem(**data): the item with a
\* required field of None is skipped.
FillDefaults(data) ==
    [f \in DOMAIN data |->
        IF f \in MissingRequired(data)
        THEN Some(IF f = "pubDate" THEN <<"R", "0">>
                  ELSE IF f \in {"size", "grabs"} THEN <<"0">>
                  ELSE <<>>)
        ELSE data[f]]

CreateItemDefaulting(data) == Constructed(SearchItem(FillDefaults(data)))

CreateItem(data) ==
    IF MissingRequired(data) # {} THEN [kind |-> "skip"]
    ELSE Constructed(SearchItem(data))

\* One turn of the loop over the channel's items.
ItemOutcome(item) == CreateItem(ExtractData(item))

\* items.append(search_item)
PrependItem(items, item) == <<item>> \o items

AppendItem(items, item) == Append(items, item)

\* The loop: the items appended so far go with an error that leaves it.
RECURSIVE ParseItems(_, _)

AfterItem(o, rest, items) ==
    IF o.kind = "leave" THEN [exc |-> o.exc, items |-> items]
    ELSE IF o.kind = "append" THEN ParseItems(rest, AppendItem(items, o.item))
    ELSE ParseItems(rest, items)

ParseItems(elems, items) ==
    IF elems = <<>> THEN [exc |-> NoExc, items |-> items]
    ELSE AfterItem(ItemOutcome(Head(elems)), Tail(elems), items)

\* A document is what ET.fromstring and root.find("channel") make of the
\* string: not XML at all, XML without a channel, or a channel of items.
Unparsable == [kind |-> "unparsable", items |-> <<>>]
NoChannel == [kind |-> "nochannel", items |-> <<>>]
Channel(items) == [kind |-> "channel", items |-> items]

\* The body of the outer try of parse_torznab_xml.
ParseDocument(xml) ==
    IF xml.kind = "unparsable" THEN [exc |-> "ParseError", items |-> <<>>]
    ELSE IF xml.kind = "nochannel" THEN [exc |-> NoExc, items |-> <<>>]
    ELSE ParseItems(xml.items, <<>>)

\* Its except clauses (ET.ParseError, Exception) and the final return.
ReturnItems(body) ==
    IF body.exc = NoExc THEN Return(body.items)
    ELSE IF Catches({"ParseError", "Exception"}, body.exc)
    THEN Return(body.items)
    ELSE Raised(body.exc)

\* JackettAPI.parse_torznab_xml
parse_torznab_xml(xml) == ReturnItems(ParseDocument(xml))

---------------------------------------------------------------------------
(* The documents the model feeds to the parser and the searches.           *)

TextElem(t) == Some(Elem(Some(t), NoAttrs))
EmptyElem == Some(Elem(None, NoAttrs))

AttrElem(name, value) == Elem(None, [name |-> name, value |-> value])
Seeders(value) == <<AttrElem("seeders", value)>>

\* An item of a Torznab feed with every field in order.
GoodItem(title, seeders) ==
    [title |-> TextElem(title),
     guid |-> TextElem(<<"a">>),
     type |-> TextElem(<<"a">>),
     comments |-> None,
     pubDate |-> TextElem(<<"R", "3">>),
     size |-> TextElem(<<"5">>),
     grabs |-> TextElem(<<"0">>),
     description |-> None,
     link |-> TextElem(<<"a">>),
     jackettindexer |-> Some(Elem(Some(<<"a">>), [id |-> <<"a">>])),
     category |-> <<>>,
     enclosure |-> None,
     attr |-> seeders]

Plain == GoodItem(<<"a">>, Seeders(<<"5">>))

\* What a size or a grabs element may hold.
NumberTexts ==
    {<<"0">>, <<"1", "2">>, <<" ", "5">>, <<"+", "5">>, <<"-", "0">>,
     <<"-", "1">>, <<"-", "1", "2">>, <<"x">>, <<"1", "x">>, <<"-">>,
     <<"1", " ", "2">>}

ChildVariants(field, texts) ==
    {[Plain EXCEPT ![field] = None], [Plain EXCEPT ![field] = EmptyElem]}
        \cup {[Plain EXCEPT ![field] = TextElem(t)] : t \in texts}

IndexerVariants ==
    {[Plain EXCEPT !.jackettindexer = None],
     [Plain EXCEPT !.jackettindexer = Some(Elem(Some(<<"a">>), NoAttrs))],
     [Plain EXCEPT !.jackettindexer = Some(Elem(None, [id |-> <<"a">>]))],
     [Plain EXCEPT !.jackettindexer = Some(Elem(Some(<<" ">>), [id |-> <<"a">>]))],
     [Plain EXCEPT !.jackettindexer = Some(Elem(Some(<<" ", "a">>), [id |-> <<>>]))]}

EnclosureVariants ==
    {[Plain EXCEPT !.enclosure = Some(Elem(None, a))] :
        a \in {[url |-> <<"a">>, length |-> <<"1", "2">>, type |-> <<"a">>],
               [url |-> <<"a">>, type |-> <<"a">>],
               [url |-> <<"a">>, length |-> <<"x">>, type |-> <<"a">>],
               [length |-> <<"5">>, type |-> <<"a">>]}}

OtherVariants ==
    {GoodItem(<<"b">>, <<>>),
     GoodItem(<<"b">>, <<AttrElem("seeders", <<"1">>), AttrElem("", <<"2">>),
                         AttrElem("seeders", <<"2">>)>>),
     [Plain EXCEPT !.category = <<Elem(Some(<<"a">>), NoAttrs),
                                  Elem(None, NoAttrs),
                                  Elem(Some(<<"a">>), NoAttrs)>>,
                   !.comments = TextElem(<<"a">>),
                   !.description = EmptyElem]}

\* The items of the documents handed to parse_torznab_xml on its own.
FeedItems ==
    {Plain}
        \cup ChildVariants("title", {}) \cup ChildVariants("guid", {})
        \cup ChildVariants("type", {}) \cup ChildVariants("link", {})
        \cup ChildVariants("pubDate", {<<"I", "3">>, <<"R", "x">>})
        \cup ChildVariants("size", NumberTexts)
        \cup ChildVariants("grabs", NumberTexts)
        \cup IndexerVariants \cup EnclosureVariants \cup OtherVariants

\* The items of the documents the searches receive: seeder counts of one
\* and two digits, an empty count, a word, no count, and an item the parser
\* drops.
SearchItems ==
    {GoodItem(<<"a">>, Seeders(v)) :
        v \in {<<"5">>, <<"2", "0">>, <<"1">>, <<"1", "2">>, <<>>, <<"x">>}}
    \cup {GoodItem(<<"b">>, Seeders(<<"5">>)),
          GoodItem(<<"a">>, <<AttrElem("peers", <<"5">>)>>),
          [GoodItem(<<"a">>, <<>>) EXCEPT !.size = None]}

SeqsUpTo(S, n) == UNION {[1..k -> S] : k \in 0..n}

\* The items around the one of any shape: two in order, one without a link,
\* one of negative size.
AroundItems ==
    {Plain, GoodItem(<<"b">>, Seeders(<<"1", "2">>)),
     [Plain EXCEPT !.link = None],
     [Plain EXCEPT !.size = TextElem(<<"-", "1">>)]}

FeedDocs ==
    {Unparsable, NoChannel, Channel(<<>>)}
        \cup {Channel(pre \o <<x>> \o post) :
                 x \in FeedItems,
                 pre \in SeqsUpTo(AroundItems, MaxAround),
                 post \in SeqsUpTo(AroundItems, MaxAround)}

SearchDocs ==
    {Unparsable, NoChannel}
        \cup {Channel(s) : s \in SeqsUpTo(SearchItems, MaxSearchItems)}

---------------------------------------------------------------------------
(* src/jackett.py: the three searches.                                      *)

\* items.sort(key=lambda x: x.torznab_attrs["seeders"], reverse=True):
\* the keys are the attribute's strings, compared as strings; the sort is
\* stable, so items of equal key keep their order.
SortKey(item) == item.torznab_attrs["seeders"]

\* Whether key a goes strictly before key b in the sorted list.
KeyBefore(a, b) == StrLess(b, a)

RECURSIVE InsertByKey(_, _)
InsertByKey(sorted, item) ==
    IF sorted = <<>> THEN <<item>>
    ELSE IF KeyBefore(SortKey(item), SortKey(Head(sorted)))
    THEN <<item>> \o sorted
    ELSE <<Head(sorted)>> \o InsertByKey(Tail(sorted), item)

RECURSIVE SortBySeeders(_, _)
SortBySeeders(items, sorted) ==
    IF items = <<>> THEN sorted
    ELSE SortBySeeders(Tail(items), InsertByKey(sorted, Head(items)))

\* list.sort computes every key before it compares any: one item without
\* "seeders" is a KeyError, whatever the length of the list.
SortItemsDefaulting(items) ==
    Ok(SortBySeeders(
        [i \in 1..Len(items) |->
            IF "seeders" \in DOMAIN items[i].torznab_attrs THEN items[i]
            ELSE [items[i] EXCEPT !.torznab_attrs = ("seeders" :> <<"0">>) @@ @]],
        <<>>))

SortItems(items) ==
    IF \E i \in 1..Len(items) : "seeders" \notin DOMAIN items[i].torznab_attrs
    THEN Raise("KeyError")
    ELSE Ok(SortBySeeders(items, <<>>))

\* What the client's GET meets: a response whose text is the document
\* (the status is not looked at), or the timeout of 120 s.
SearchResponses == {[kind |-> "timeout"]} \cup {[kind |-> "http", text |-> d] : d \in SearchDocs}

\* The end of a search: the sorted list, or the sort's KeyError.
SortOutcome(sorted) ==
    IF sorted.exc = NoExc THEN Return(sorted.val) ELSE Raised(sorted.exc)

SortParsed(parsed) ==
    IF parsed.kind = "raise" THEN parsed ELSE SortOutcome(SortItems(parsed.value))

\* The body shared by search, search_show and search_movie.
SearchOutcome(response) ==
    IF response.kind = "timeout" THEN Raised("TimeoutException")
    ELSE SortParsed(parse_torznab_xml(response.text))

\* JackettAPI.search
Search ==
    \E r \in SearchResponses :
        /\ op = "none"
        /\ op' = "search"
        /\ arg' = [t |-> "search", q |-> "q"]
        /\ requests' = <<[method |-> "GET", path |-> "/api", params |-> arg']>>
        /\ responses' = <<r>>
        /\ result' = SearchOutcome(r)
        /\ UNCHANGED remote

\* JackettAPI.search_show: the season goes into the query when it is given
\* and positive.
SearchShow ==
    \E r \in SearchResponses, season \in {None, Some(0), Some(1)} :
        /\ op = "none"
        /\ op' = "search_show"
        /\ arg' = IF season.some /\ season.v > 0
                  THEN [t |-> "tvsearch", q |-> "q 1080p", season |-> season.v]
                  ELSE [t |-> "tvsearch", q |-> "q 1080p"]
        /\ requests' = <<[method |-> "GET", path |-> "/api", params |-> arg']>>
        /\ responses' = <<r>>
        /\ result' = SearchOutcome(r)
        /\ UNCHANGED remote

\* JackettAPI.search_movie
SearchMovie ==
    \E r \in SearchResponses :
        /\ op = "none"
        /\ op' = "search_movie"
        /\ arg' = [t |-> "movie", q |-> "q 1080p"]
        /\ requests' = <<[method |-> "GET", path |-> "/api", params |-> arg']>>
        /\ responses' = <<r>>
        /\ result' = SearchOutcome(r)
        /\ UNCHANGED remote

\* JackettAPI.parse_torznab_xml, called on a document.
ParseTorznabXml ==
    \E xml \in FeedDocs :
        /\ op = "none"
        /\ op' = "parse_torznab_xml"
        /\ arg' = xml
        /\ result' = parse_torznab_xml(xml)
        /\ UNCHANGED <<requests, responses, remote>>

---------------------------------------------------------------------------
(* HTTP and JSON as the debrid client sees them.                           *)

Timeout == [kind |-> "timeout"]
Http(status, body) == [kind |-> "http", status |-> status, body |-> body]

\* The statuses the service answers with in the model.
Statuses == {200, 201, 298, 299, 300, 404, 503}

JNull == [type |-> "null"]
JInt(n) == [type |-> "int", n |-> n]
JStr(s) == [type |-> "str", s |-> s]
JArray(elems) == [type |-> "array", elems |-> elems]
JObject(fields) == [type |-> "object", fields |-> fields]

\* A body that is JSON, and one that is not.
JsonBody(value) == [json |-> TRUE, value |-> value]
NotJson == [json |-> FALSE]

\* response.json()
Json(body) == IF body.json THEN Ok(body.value) ELSE Raise("JSONDecodeError")

\* httpx.HTTPStatusError(..., request=response.request, response=response)
StatusError(response) ==
    [kind |-> "raise", exc |-> "HTTPStatusError", response |-> response]

\* A pydantic model as its fields' types ("?" marks Optional ... = None).
RDAddMagnetModel == [id |-> "str", uri |-> "str"]

RDTorrentModel ==
    [id |-> "str", filename |-> "str", hash |-> "str", bytes |-> "int",
     host |-> "str", split |-> "int", progress |-> "int", status |-> "str",
     added |-> "str", links |-> "list[str]", ended |-> "str?",
     speed |-> "int?", seeders |-> "int?"]

RDFileInTorrentModel ==
    [id |-> "int", path |-> "str", bytes |-> "int", selected |-> "int"]

RDTorrentInfoModel ==
    [id |-> "str", filename |-> "str", original_filename |-> "str",
     hash |-> "str", bytes |-> "int", original_bytes |-> "int",
     host |-> "str", split |-> "int", progress |-> "int", status |-> "str",
     added |-> "str", files |-> "list[RDFileInTorrent]",
     links |-> "list[str]", ended |-> "str?", speed |-> "int?",
     seeders |-> "int?"]

\* Whether pydantic (v2) takes JSON value v for a field of type t: a str
\* field takes no number; an int field takes a number and, of texts, only
\* numerals, which the texts of the bodies here are not.
ScalarOk(t, v) ==
    CASE t = "str" -> v.type = "str"
      [] t = "int" -> v.type = "int"
      [] t = "str?" -> v.type \in {"str", "null"}
      [] t = "int?" -> v.type \in {"int", "null"}
      [] OTHER -> FALSE

FileOk(v) ==
    /\ v.type = "object"
    /\ \A f \in DOMAIN RDFileInTorrentModel :
           f \in DOMAIN v.fields /\ ScalarOk(RDFileInTorrentModel[f], v.fields[f])

TypeOk(t, v) ==
    CASE t = "list[str]" ->
            v.type = "array" /\ \A i \in 1..Len(v.elems) : v.elems[i].type = "str"
      [] t = "list[RDFileInTorrent]" ->
            v.type = "array" /\ \A i \in 1..Len(v.elems) : FileOk(v.elems[i])
      [] OTHER -> ScalarOk(t, v)

Optional(t) == t \in {"str?", "int?"}

\* Model(**value): unpacking what is no mapping is a TypeError; a required
\* field that is not there or a value of the wrong type is a
\* ValidationError; fields the model does not name are ignored.
Construct(model, value) ==
    IF value.type # "object" THEN Raise("TypeError")
    ELSE IF \A f \in DOMAIN model :
                IF f \in DOMAIN value.fields THEN TypeOk(model[f], value.fields[f])
                ELSE Optional(model[f])
    THEN Ok([f \in DOMAIN model |->
                IF f \in DOMAIN value.fields THEN value.fields[f] ELSE JNull])
    ELSE Raise("ValidationError")

---------------------------------------------------------------------------
(* The debrid service, as far as the client's calls change it.  A request  *)
(* answered with a 2xx status was carried out; one answered with another   *)
(* status was not; one that timed out may or may not have been.            *)

TorrentIds == {"abc", "def"}

Carried(status) == status >= 200 /\ status <= 299

ErrorBody == JsonBody(JObject([error |-> JStr("error"), error_code |-> JInt(8)]))

\* The bodies of an answer to addMagnet for the torrent made under id t:
\* the documented one, and ones RDAddMagnet does not take.
AddBodies(t) ==
    {JsonBody(JObject([id |-> JStr(t), uri |-> JStr("http://x")])),
     JsonBody(JObject([id |-> JStr(t)])),
     JsonBody(JObject([id |-> JInt(7), uri |-> JStr("http://x")])),
     JsonBody(JArray(<<>>)),
     NotJson}

Failures == {[response |-> Http(st, ErrorBody)] : st \in {x \in Statuses : ~Carried(x)}}

\* POST /torrents/addMagnet: the answers the service may give, each with
\* the torrents it then holds.
ServeAdd(rem) ==
    {[response |-> f.response, remote |-> rem] : f \in Failures}
        \cup {[response |-> Timeout, remote |-> rem]}
        \cup UNION {
               {[response |-> Timeout, remote |-> [rem EXCEPT ![t] = "added"]]}
                   \cup {[response |-> Http(st, b),
                          remote |-> [rem EXCEPT ![t] = "added"]] :
                            st \in {x \in Statuses : Carried(x)}, b \in AddBodies(t)} :
               t \in {x \in TorrentIds : rem[x] = "absent"}}

\* POST /torrents/selectFiles/{id} and DELETE /torrents/delete/{id}: the
\* torrent, when the service holds it, goes to state `to`.
ServeChange(rem, id, to) ==
    {[response |-> f.response, remote |-> rem] : f \in Failures}
        \cup {[response |-> Timeout, remote |-> rem]}
        \cup (IF id \in TorrentIds /\ rem[id] # "absent"
              THEN {[response |-> Timeout, remote |-> [rem EXCEPT ![id] = to]]}
                       \cup {[response |-> Http(st, JsonBody(JNull)),
                              remote |-> [rem EXCEPT ![id] = to]] :
                                st \in {x \in Statuses : Carried(x)}}
              ELSE {})

---------------------------------------------------------------------------
(* src/real_debrid.py: RealDebrid.                                          *)

Get(path) == [method |-> "GET", path |-> path, form |-> {}]
Post(path, form) == [method |-> "POST", path |-> path, form |-> form]
Delete(path) == [method |-> "DELETE", path |-> path, form |-> {}]

\* The request of select_torrent_files(torrent_id, file_ids).
SelectRequestNoFiles(torrent_id, file_ids) ==
    Post(<<"/torrents/selectFiles", torrent_id>>, {})

SelectRequest(torrent_id, file_ids) ==
    Post(<<"/torrents/selectFiles", torrent_id>>, {<<"files", file_ids>>})

\* RealDebrid.select_torrent_files, from the response on.
SelectRaisesFrom299(response) ==
    IF response.kind = "timeout" THEN Raised("TimeoutException")
    ELSE IF response.status >= 299 THEN StatusError(response)
    ELSE Return(None)

select_torrent_files(response) ==
    IF response.kind = "timeout" THEN Raised("TimeoutException")
    ELSE IF response.status > 299 THEN StatusError(response)
    ELSE Return(None)

\* RealDebrid.delete_torrent, from the response on.
DeleteRaisesFrom299(response) ==
    IF response.kind = "timeout" THEN Raised("TimeoutException")
    ELSE IF response.status >= 299 THEN StatusError(response)
    ELSE Return(None)

delete_torrent(response) ==
    IF response.kind = "timeout" THEN Raised("TimeoutException")
    ELSE IF response.status > 299 THEN StatusError(response)
    ELSE Return(None)

\* RDAddMagnet(**response.json())
ParseAddMagnet(json) ==
    IF json.exc # NoExc THEN json ELSE Construct(RDAddMagnetModel, json.val)

\* RealDebrid.add_magnet up to the call of select_torrent_files: the call
\* has ended (`done`) with an error, or goes on with the parsed answer.
AfterParse(parsed) ==
    IF parsed.exc # NoExc THEN [done |-> TRUE, result |-> Raised(parsed.exc)]
    ELSE [done |-> FALSE, parsed |-> parsed.val]

AddStepThrough299(response) ==
    IF response.kind = "timeout"
    THEN [done |-> TRUE, result |-> Raised("TimeoutException")]
    ELSE IF response.status <= 299 THEN AfterParse(ParseAddMagnet(Json(response.body)))
    ELSE [done |-> TRUE, result |-> StatusError(response)]

AddStep(response) ==
    IF response.kind = "timeout"
    THEN [done |-> TRUE, result |-> Raised("TimeoutException")]
    ELSE IF response.status < 299 THEN AfterParse(ParseAddMagnet(Json(response.body)))
    ELSE [done |-> TRUE, result |-> StatusError(response)]

\* The end of add_magnet: what select_torrent_files raised, or the parsed
\* answer.
AddEndIgnoringSelect(parsed, selected) == Return(parsed)

AddEnd(parsed, selected) ==
    IF selected.kind = "raise" THEN selected ELSE Return(parsed)

\* RealDebrid.get_time, from the response on.
get_time(response) ==
    IF response.kind = "timeout" THEN Raised("TimeoutException")
    ELSE IF response.status = 200
    THEN IF Strptime(response.body, "S").exc = NoExc
         THEN Return(Some(Strptime(response.body, "S").val))
         ELSE Raised("ValueError")
    ELSE Return(None)

\* RealDebrid.get_user_info, from the response on: the JSON of a 200, an
\* error mapping otherwise.
UserInfoError(status) ==
    JObject([error |-> JStr(<<"Unable to fetch user information. Status code: ",
                              status>>)])

UserJson(json) == IF json.exc = NoExc THEN Return(json.val) ELSE Raised(json.exc)

get_user_info(response) ==
    IF response.kind = "timeout" THEN Raised("TimeoutException")
    ELSE IF response.status = 200 THEN UserJson(Json(response.body))
    ELSE Return(UserInfoError(response.status))

\* "expiration" in user_info: a key of a mapping, an element of a list, and
\* a TypeError on null or a number.
HasExpiration(user_info) ==
    CASE user_info.type = "object" -> Ok("expiration" \in DOMAIN user_info.fields)
      [] user_info.type = "array" -> Ok(FALSE)
      [] OTHER -> Raise("TypeError")

\* datetime.strptime(user_info["expiration"], "%Y-%m-%dT%H:%M:%S.%fZ")
ExpirationDate(user_info) ==
    IF user_info.fields["expiration"].type # "str" THEN Raise("TypeError")
    ELSE Strptime(user_info.fields["expiration"].s, "I")

\* RealDebrid.get_premium_time_left up to the call of get_time.
PremiumDate(has, user_info) ==
    IF has.exc # NoExc THEN [done |-> TRUE, result |-> Raised(has.exc)]
    ELSE IF ~has.val THEN [done |-> TRUE, result |-> Return(None)]
    ELSE IF ExpirationDate(user_info).exc # NoExc
    THEN [done |-> TRUE, result |-> Raised(ExpirationDate(user_info).exc)]
    ELSE [done |-> FALSE, date |-> ExpirationDate(user_info).val]

PremiumStep(user) ==
    IF user.kind = "raise" THEN [done |-> TRUE, result |-> user]
    ELSE PremiumDate(HasExpiration(user.value), user.value)

\* diff = expiration_date - self.get_time(): a datetime minus None is a
\* TypeError.
PremiumEnd(date, time) ==
    IF time.kind = "raise" THEN time
    ELSE IF ~time.value.some THEN Raised("TypeError")
    ELSE Return(Some(date - time.value.v))

\* The error values of get_torrents.
TorrentsValidationError ==
    [error |-> <<"Validation error occurred while parsing torrents.">>]

TorrentsStatusError(status) ==
    [error |-> <<"Unable to fetch torrents. Status code: ", status>>]

\* for item in response.json(): the elements of a list, the keys of a
\* mapping, and a TypeError on null or a number.
Iterate(value) ==
    CASE value.type = "array" -> Ok(value.elems)
      [] value.type = "object" ->
            Ok(IF DOMAIN value.fields = {} THEN <<>> ELSE <<JStr("key")>>)
      [] OTHER -> Raise("TypeError")

\* [RDTorrent(**item) for item in ...]: the first element that cannot be
\* constructed ends the comprehension with its error.
RECURSIVE ConstructAll(_, _)

ConstructNext(made, rest, acc) ==
    IF made.exc # NoExc THEN made ELSE ConstructAll(rest, Append(acc, made.val))

ConstructAll(elems, acc) ==
    IF elems = <<>> THEN Ok(acc)
    ELSE ConstructNext(Construct(RDTorrentModel, Head(elems)), Tail(elems), acc)

TorrentList(json) ==
    IF json.exc # NoExc THEN json
    ELSE IF Iterate(json.val).exc # NoExc THEN Iterate(json.val)
    ELSE ConstructAll(Iterate(json.val).val, <<>>)

\* The try of get_torrents: except ValidationError gives the error value,
\* any other error goes up.
TorrentsHandlers == {"ValidationError"}

TorrentsOutcome(list) ==
    IF list.exc = NoExc THEN Return([list |-> list.val])
    ELSE IF Catches(TorrentsHandlers, list.exc) THEN Return(TorrentsValidationError)
    ELSE Raised(list.exc)

\* RealDebrid.get_torrents, from the response on.
get_torrents(response) ==
    IF response.kind = "timeout" THEN Raised("TimeoutException")
    ELSE IF response.status = 200 THEN TorrentsOutcome(TorrentList(Json(response.body)))
    ELSE Return(TorrentsStatusError(response.status))

\* RealDebrid.get_torrent_info, from the response on.
InfoOutcome(info) ==
    IF info.exc = NoExc THEN Return(info.val) ELSE Raised(info.exc)

ParseInfo(json) ==
    IF json.exc # NoExc THEN json ELSE Construct(RDTorrentInfoModel, json.val)

get_torrent_info(response) ==
    IF response.kind = "timeout" THEN Raised("TimeoutException")
    ELSE IF response.status < 299 THEN InfoOutcome(ParseInfo(Json(response.body)))
    ELSE StatusError(response)

---------------------------------------------------------------------------
(* What the service answers the client's GETs with.                        *)

\* GET /time: the server's time as text, in the documented layout or not.
TimeResponses ==
    {Timeout} \cup {Http(st, text) : st \in Statuses,
                                     text \in {<<"S", "2">>, <<"S", "7">>, <<"I", "2">>}}

\* GET /user
UserBodies ==
    {JsonBody(JObject([username |-> JStr(<<"a">>), expiration |-> JStr(<<"I", "5">>)])),
     JsonBody(JObject([username |-> JStr(<<"a">>), expiration |-> JStr(<<"S", "5">>)])),
     JsonBody(JObject([username |-> JStr(<<"a">>), expiration |-> JNull])),
     JsonBody(JObject([username |-> JStr(<<"a">>)])),
     JsonBody(JArray(<<>>)),
     JsonBody(JNull),
     NotJson}

UserResponses ==
    {Timeout} \cup {Http(200, b) : b \in UserBodies}
        \cup {Http(st, b) : st \in Statuses \ {200},
                            b \in {ErrorBody,
                                   JsonBody(JObject([expiration |-> JStr(<<"I", "5">>)]))}}

\* GET /torrents: a torrent as the service documents it, with the fields of
\* a transient state or without, and elements RDTorrent does not take.
TorrentJson(id, more) ==
    JObject([id |-> JStr(id), filename |-> JStr("f"), hash |-> JStr("h"),
             bytes |-> JInt(1), host |-> JStr("real-debrid.com"),
             split |-> JInt(2), progress |-> JInt(100),
             status |-> JStr("downloaded"), added |-> JStr("2025-06-04"),
             links |-> JArray(<<JStr("http://x")>>)] @@ more)

WithoutHash(obj) ==
    JObject([f \in DOMAIN obj.fields \ {"hash"} |-> obj.fields[f]])

TorrentElems ==
    {TorrentJson("abc", [seeders |-> JInt(3), extra |-> JNull]),
     TorrentJson("def", [ended |-> JNull]),
     WithoutHash(TorrentJson("abc", [speed |-> JInt(1)])),
     TorrentJson("abc", [bytes |-> JStr("big")]),
     JInt(5),
     JNull}

TorrentsBodies ==
    {JsonBody(JArray(l)) : l \in SeqsUpTo(TorrentElems, MaxTorrents)}
        \cup {ErrorBody, JsonBody(JNull), NotJson}

TorrentsResponses ==
    {Timeout} \cup {Http(200, b) : b \in TorrentsBodies}
        \cup {Http(st, b) : st \in Statuses \ {200},
                            b \in {ErrorBody,
                                   JsonBody(JArray(<<TorrentJson("abc", <<>>)>>))}}

\* GET /torrents/info/{id}
FileJson(selected) ==
    JObject([id |-> JInt(1), path |-> JStr("/f"), bytes |-> JInt(1),
             selected |-> JInt(selected)])

InfoJson(id, files) ==
    JObject(TorrentJson(id, <<>>).fields
                @@ [original_filename |-> JStr("f"), original_bytes |-> JInt(1),
                    files |-> JArray(files)])

InfoBodies(id) ==
    {JsonBody(InfoJson(id, <<FileJson(0), FileJson(1)>>)),
     JsonBody(InfoJson(id, <<JObject([id |-> JInt(1)])>>)),
     JsonBody(TorrentJson(id, <<>>)),
     ErrorBody,
     NotJson}

InfoResponses(id) ==
    {Timeout} \cup {Http(st, b) : st \in Statuses, b \in InfoBodies(id)}

---------------------------------------------------------------------------
(* The calls of the debrid client.                                          *)

\* RealDebrid.get_time
GetTime ==
    \E r \in TimeResponses :
        /\ op = "none"
        /\ op' = "get_time"
        /\ arg' = "none"
        /\ requests' = <<Get(<<"/time">>)>>
        /\ responses' = <<r>>
        /\ result' = get_time(r)
        /\ UNCHANGED remote

\* RealDebrid.get_user_info
GetUserInfo ==
    \E r \in UserResponses :
        /\ op = "none"
        /\ op' = "get_user_info"
        /\ arg' = "none"
        /\ requests' = <<Get(<<"/user">>)>>
        /\ responses' = <<r>>
        /\ result' = get_user_info(r)
        /\ UNCHANGED remote

\* RealDebrid.get_premium_time_left: get_user_info, and get_time when the
\* user information holds an expiration that parses.
GetPremiumTimeLeft ==
    \E u \in UserResponses :
        /\ op = "none"
        /\ op' = "get_premium_time_left"
        /\ arg' = "none"
        /\ UNCHANGED remote
        /\ \/ /\ PremiumStep(get_user_info(u)).done
              /\ requests' = <<Get(<<"/user">>)>>
              /\ responses' = <<u>>
              /\ result' = PremiumStep(get_user_info(u)).result
           \/ /\ ~PremiumStep(get_user_info(u)).done
              /\ \E t \in TimeResponses :
                    /\ requests' = <<Get(<<"/user">>), Get(<<"/time">>)>>
                    /\ responses' = <<u, t>>
                    /\ result' = PremiumEnd(PremiumStep(get_user_info(u)).date,
                                            get_time(t))

\* The URL of get_torrents: the offset is named when it is positive.
TorrentsUrl(limit, offset) ==
    IF offset > 0
    THEN <<"/torrents", <<"limit", limit>>, <<"offset", offset>>>>
    ELSE <<"/torrents", <<"limit", limit>>>>

\* RealDebrid.get_torrents
GetTorrents ==
    \E r \in TorrentsResponses, page \in {<<100, 0>>, <<10, 5>>} :
        /\ op = "none"
        /\ op' = "get_torrents"
        /\ arg' = page
        /\ requests' = <<Get(TorrentsUrl(page[1], page[2]))>>
        /\ responses' = <<r>>
        /\ result' = get_torrents(r)
        /\ UNCHANGED remote

\* RealDebrid.delete_torrent
DeleteTorrent ==
    \E id \in TorrentIds :
        \E d \in ServeChange(remote, id, "absent") :
            /\ op = "none"
            /\ op' = "delete_torrent"
            /\ arg' = id
            /\ requests' = <<Delete(<<"/torrents/delete", id>>)>>
            /\ responses' = <<d.response>>
            /\ result' = delete_torrent(d.response)
            /\ remote' = d.remote

\* RealDebrid.select_torrent_files
SelectTorrentFiles ==
    \E id \in TorrentIds, files \in {"all", "1,2"} :
        \E x \in ServeChange(remote, id, "selected") :
            /\ op = "none"
            /\ op' = "select_torrent_files"
            /\ arg' = <<id, files>>
            /\ requests' = <<SelectRequest(id, files)>>
            /\ responses' = <<x.response>>
            /\ result' = select_torrent_files(x.response)
            /\ remote' = x.remote

\* RealDebrid.get_torrent_info
GetTorrentInfo ==
    \E id \in TorrentIds :
        \E r \in InfoResponses(id) :
            /\ op = "none"
            /\ op' = "get_torrent_info"
            /\ arg' = id
            /\ requests' = <<Get(<<"/torrents/info", id>>)>>
            /\ responses' = <<r>>
            /\ result' = get_torrent_info(r)
            /\ UNCHANGED remote

AddRequest(magnet_url) == Post(<<"/torrents/addMagnet">>, {<<"magnet", magnet_url>>})

\* RealDebrid.add_magnet: the POST of the magnet and, when its answer is
\* below 299 and parses, select_torrent_files(parsed.id, "all").
AddMagnet ==
    \E a \in ServeAdd(remote) :
        /\ op = "none"
        /\ op' = "add_magnet"
        /\ arg' = "magnet:?xt=urn:btih:1"
        /\ \/ /\ AddStep(a.response).done
              /\ requests' = <<AddRequest(arg')>>
              /\ responses' = <<a.response>>
              /\ result' = AddStep(a.response).result
              /\ remote' = a.remote
           \/ /\ ~AddStep(a.response).done
              /\ \E x \in ServeChange(a.remote, AddStep(a.response).parsed.id.s,
                                      "selected") :
                    /\ requests' = <<AddRequest(arg'),
                                     SelectRequest(AddStep(a.response).parsed.id.s,
                                                   "all")>>
                    /\ responses' = <<a.response, x.response>>
                    /\ result' = AddEnd(AddStep(a.response).parsed,
                                        select_torrent_files(x.response))
                    /\ remote' = x.remote

---------------------------------------------------------------------------

Init ==
    /\ op = "none"
    /\ arg = "none"
    /\ requests = <<>>
    /\ responses = <<>>
    /\ result = [kind |-> "none"]
    /\ remote = [t \in TorrentIds |-> "absent"]

\* The caller takes the outcome of the call; the client keeps nothing of it
\* (no state is retained between calls), the service keeps its torrents.
TakeResult ==
    /\ op # "none"
    /\ op' = "none"
    /\ arg' = "none"
    /\ requests' = <<>>
    /\ responses' = <<>>
    /\ result' = [kind |-> "none"]
    /\ UNCHANGED remote

FeedNext ==
    ParseTorznabXml \/ Search \/ SearchShow \/ SearchMovie \/ TakeResult

\* The feed client and its parser.
FeedSpec == Init /\ [][FeedNext]_vars

Next ==
    \/ GetTime \/ GetUserInfo \/ GetPremiumTimeLeft \/ GetTorrents
    \/ DeleteTorrent \/ AddMagnet \/ GetTorrentInfo \/ SelectTorrentFiles
    \/ TakeResult

\* The debrid client and the service it talks to.
Spec == Init /\ [][Next]_vars

---------------------------------------------------------------------------
(* What the claims say of a feed item, read off the XML.                   *)

ElemText(child) == IF child.v.text.some THEN child.v.text.v ELSE <<>>

\* The item lacks required field f: the child element is not there; for
\* the indexer id, the jackettindexer child or its id attribute is not
\* there; for the indexer name, the child or its text is not there.
Lacks(item, f) ==
    CASE f = "indexer_id" ->
            ~item.jackettindexer.some
                \/ "id" \notin DOMAIN item.jackettindexer.v.attrs
      [] f = "indexer_name" ->
            ~item.jackettindexer.some \/ ElemText(item.jackettindexer) = <<>>
      [] OTHER -> ~item[f].some

LacksRequired(item) == \E f \in RequiredFields : Lacks(item, f)

\* The size or the grabs of the item is there and is no number or is a
\* number below 0.
BadNumber(item) ==
    \E f \in {"size", "grabs"} :
        /\ item[f].some
        /\ \/ PyInt(ElemText(item[f])).exc # NoExc
           \/ PyInt(ElemText(item[f])).val < 0

BadDate(item) ==
    item.pubDate.some /\ Strptime(ElemText(item.pubDate), "R").exc # NoExc

\* All nine required fields are there and their values pass validation.
WellFormed(item) == ~LacksRequired(item) /\ ~BadNumber(item) /\ ~BadDate(item)

\* The result r carries the title, guid, link, size, grabs, date and
\* indexer of the item.
BuiltFrom(r, item) ==
    /\ r.title = ElemText(item.title)
    /\ r.guid = ElemText(item.guid)
    /\ r.link = ElemText(item.link)
    /\ r.item_type = ElemText(item.type)
    /\ r.size = PyInt(ElemText(item.size)).val
    /\ r.grabs = PyInt(ElemText(item.grabs)).val
    /\ r.pub_date = Strptime(ElemText(item.pubDate), "R").val
    /\ r.indexer_id = item.jackettindexer.v.attrs["id"]
    /\ r.indexer_name = Strip(ElemText(item.jackettindexer))

\* The results are built from the items, one for one and in their order.
BuiltInOrder(results, items) ==
    /\ Len(results) = Len(items)
    /\ \A i \in 1..Len(items) : BuiltFrom(results[i], items[i])

Parsing == op = "parse_torznab_xml" /\ arg.kind = "channel"

Searching == op \in {"search", "search_show", "search_movie"}

\* The seeders attribute of a returned item, as an integer.
SeedersOf(r) == PyInt(r.torznab_attrs["seeders"])

---------------------------------------------------------------------------
(* Claims on the feed client, checked under FeedSpec.                      *)

\* C2 (as claimed): search, search_show and search_movie return the items
\* ordered descending by "seeders" read as an integer: of two adjacent
\* returned items whose seeders are numbers, the earlier has at least as
\* many as the later.
C2_SortedBySeedersAsInteger ==
    (Searching /\ result.kind = "return") =>
        \A i \in 1..(Len(result.value) - 1) :
            (SeedersOf(result.value[i]).exc = NoExc
                /\ SeedersOf(result.value[i + 1]).exc = NoExc)
            => SeedersOf(result.value[i]).val >= SeedersOf(result.value[i + 1]).val

\* C3: a channel of N items, each with all nine required fields and values
\* that pass validation, parses to exactly N results, the i-th built from
\* the i-th item.
C3_AllItemsInDocumentOrder ==
    (Parsing /\ \A i \in 1..Len(arg.items) : WellFormed(arg.items[i])) =>
        /\ result.kind = "return"
        /\ BuiltInOrder(result.value, arg.items)

C3_Witness ==
    /\ Parsing
    /\ Len(arg.items) >= 2
    /\ \A i \in 1..Len(arg.items) : WellFormed(arg.items[i])
    /\ arg.items[1] # arg.items[2]
    /\ result.kind = "return"
    /\ Len(result.value) = Len(arg.items)

\* C4: an item that lacks a required field is omitted, and every other
\* item of the feed, before and after it, is still returned in document
\* order (the other items being valid).
C4_ItemLackingFieldOmitted ==
    (/\ Parsing
     /\ \A i \in 1..Len(arg.items) :
            LacksRequired(arg.items[i]) \/ WellFormed(arg.items[i])) =>
        /\ result.kind = "return"
        /\ BuiltInOrder(result.value,
                        SelectSeq(arg.items, LAMBDA x : ~LacksRequired(x)))

C4_Witness ==
    /\ Parsing
    /\ Len(arg.items) = 3
    /\ WellFormed(arg.items[1])
    /\ LacksRequired(arg.items[2])
    /\ WellFormed(arg.items[3])
    /\ arg.items[1] # arg.items[3]
    /\ result.kind = "return"
    /\ Len(result.value) = 2

\* C5: an item whose size or grabs is negative or no number is omitted,
\* never coerced, and the results are those of the feed without it.
C5_BadNumberOmitted ==
    Parsing =>
        /\ result.kind = "return"
        /\ result = parse_torznab_xml(
                        Channel(SelectSeq(arg.items, LAMBDA x : ~BadNumber(x))))
        /\ Len(result.value)
               <= Len(SelectSeq(arg.items, LAMBDA x : ~BadNumber(x)))

C5_Witness ==
    /\ Parsing
    /\ Len(arg.items) = 3
    /\ WellFormed(arg.items[1])
    /\ BadNumber(arg.items[2]) /\ ~LacksRequired(arg.items[2])
    /\ PyInt(ElemText(arg.items[2].grabs)).exc = NoExc
    /\ PyInt(ElemText(arg.items[2].grabs)).val < 0
    /\ WellFormed(arg.items[3])
    /\ result.kind = "return"
    /\ Len(result.value) = 2

\* C6: parse_torznab_xml never raises: a document that does not parse and
\* a document without a channel give the empty list, and an item that
\* fails is skipped with the items after it still processed, so that the
\* results are the items that do not fail, each in its place.
C6_ParserNeverRaises ==
    op = "parse_torznab_xml" =>
        /\ result.kind = "return"
        /\ arg.kind \in {"unparsable", "nochannel"} => result.value = <<>>
        /\ arg.kind = "channel" =>
               BuiltInOrder(result.value, SelectSeq(arg.items, WellFormed))

C6_Witness ==
    /\ Parsing
    /\ Len(arg.items) = 3
    /\ BadDate(arg.items[2]) \/ BadNumber(arg.items[2])
    /\ ~WellFormed(arg.items[1])
    /\ WellFormed(arg.items[3])
    /\ result = Return(<<parse_torznab_xml(Channel(<<arg.items[3]>>)).value[1]>>)

\* C7: when an item the parser returned has no "seeders" attribute, the
\* search fails as a whole with a KeyError: no list is returned.
C7_MissingSeedersFailsSearch ==
    (/\ Searching
     /\ responses[1].kind = "http"
     /\ \E i \in 1..Len(parse_torznab_xml(responses[1].text).value) :
            "seeders" \notin
                DOMAIN parse_torznab_xml(responses[1].text).value[i].torznab_attrs)
    => result = Raised("KeyError")

C7_Witness ==
    /\ Searching
    /\ responses[1].kind = "http"
    /\ Len(parse_torznab_xml(responses[1].text).value) = 3
    /\ "seeders" \in
           DOMAIN parse_torznab_xml(responses[1].text).value[1].torznab_attrs
    /\ "seeders" \notin
           DOMAIN parse_torznab_xml(responses[1].text).value[3].torznab_attrs
    /\ result = Raised("KeyError")

---------------------------------------------------------------------------
(* Claims on the debrid client, checked under Spec.                        *)

\* The body of an answer is the JSON object {id, uri} of the service's
\* documentation: both keys there, both strings.
IsIdUri(body) ==
    /\ body.json
    /\ body.value.type = "object"
    /\ {"id", "uri"} \subseteq DOMAIN body.value.fields
    /\ body.value.fields["id"].type = "str"
    /\ body.value.fields["uri"].type = "str"

\* add_magnet was called and the add request was answered with a status
\* below 299 and a body {id, uri}.
AddAnswered ==
    /\ op = "add_magnet"
    /\ responses[1].kind = "http"
    /\ responses[1].status < 299
    /\ IsIdUri(responses[1].body)

\* The requests of the call are the add request and then one select-files
\* request for the id of the add response, with files = "all".
AddThenOneSelectAll ==
    requests = <<Post(<<"/torrents/addMagnet">>, {<<"magnet", arg>>}),
                 Post(<<"/torrents/selectFiles", responses[1].body.value.fields["id"].s>>,
                      {<<"files", "all">>})>>

ParsedIdUri ==
    [id |-> responses[1].body.value.fields["id"],
     uri |-> responses[1].body.value.fields["uri"]]

\* C1 (as claimed): after an add response with a success status and a body
\* {id, uri}, exactly one select-files request follows the add request, for
\* that id with files = "all", and add_magnet returns the parsed {id, uri}.
C1_AsClaimed ==
    AddAnswered => (AddThenOneSelectAll /\ result = Return(ParsedIdUri))

\* C1 (amended): the one select-files request follows in every such call;
\* add_magnet returns the parsed {id, uri} when the select-files request is
\* answered with a status of at most 299, and raises the error of the
\* select-files request (its status error or its timeout) otherwise.
C1_AddThenSelectAll ==
    AddAnswered =>
        /\ AddThenOneSelectAll
        /\ Len(responses) = 2
        /\ IF responses[2].kind = "http" /\ responses[2].status <= 299
           THEN result = Return(ParsedIdUri)
           ELSE IF responses[2].kind = "http"
           THEN result = StatusError(responses[2])
           ELSE result = Raised("TimeoutException")

C1_Witness ==
    /\ AddAnswered
    /\ responses[1].status = 200
    /\ responses[2].kind = "http"
    /\ responses[2].status = 200
    /\ requests[2] = Post(<<"/torrents/selectFiles", "abc">>, {<<"files", "all">>})
    /\ result = Return([id |-> JStr("abc"), uri |-> JStr("http://x")])

\* C8 (as claimed): get_torrents never raises on a bad response: a status
\* other than 200, or a 200 whose JSON array has an element that is no
\* valid RDTorrent, gives an error value; a 200 whose elements are all
\* valid gives the full list.
C8_TorrentsAllOrNothing ==
    (/\ op = "get_torrents"
     /\ responses[1].kind = "http"
     /\ \/ responses[1].status # 200
        \/ responses[1].body.json /\ responses[1].body.value.type = "array") =>
        /\ result.kind = "return"
        /\ IF /\ responses[1].status = 200
              /\ \A i \in 1..Len(responses[1].body.value.elems) :
                     Construct(RDTorrentModel,
                               responses[1].body.value.elems[i]).exc = NoExc
           THEN /\ "list" \in DOMAIN result.value
                /\ Len(result.value.list) = Len(responses[1].body.value.elems)
                /\ \A i \in 1..Len(result.value.list) :
                       result.value.list[i].id
                           = responses[1].body.value.elems[i].fields["id"]
           ELSE "error" \in DOMAIN result.value

\* C9: delete_torrent issues one DELETE /torrents/delete/{id}; a status
\* above 299 raises a status error that carries the response and so its
\* status code; a status of at most 299 returns normally.
C9_DeleteStatusBoundary ==
    (op = "delete_torrent" /\ responses[1].kind = "http") =>
        /\ requests = <<Delete(<<"/torrents/delete", arg>>)>>
        /\ IF responses[1].status > 299
           THEN /\ result.kind = "raise"
                /\ result.exc = "HTTPStatusError"
                /\ result.response = responses[1]
                /\ result.response.status = responses[1].status
           ELSE result = Return(None)

C9_Witness ==
    /\ op = "delete_torrent"
    /\ responses[1].kind = "http"
    /\ responses[1].status = 404
    /\ result.kind = "raise"
    /\ result.response.status = 404

\* The user information get_user_info gave is a mapping.
UserInfoIsMapping ==
    /\ responses[1].kind = "http"
    /\ \/ responses[1].status # 200
       \/ responses[1].body.json /\ responses[1].body.value.type = "object"

UserInfo == get_user_info(responses[1]).value.fields

\* C10 (as claimed): get_premium_time_left returns None when the user
\* information has no "expiration" key, the error mapping of a /user that
\* is not 200 included, and the expiration minus the server time got from
\* get_time when the key is there (stated for an expiration in the
\* documented layout and a /time that answers, in the documented layout
\* when it answers 200).
C10_PremiumTimeLeft ==
    (op = "get_premium_time_left" /\ UserInfoIsMapping) =>
        IF "expiration" \notin DOMAIN UserInfo
        THEN result = Return(None)
        ELSE (/\ UserInfo["expiration"].type = "str"
              /\ Strptime(UserInfo["expiration"].s, "I").exc = NoExc
              /\ responses[2].kind = "http"
              /\ Strptime(responses[2].body, "S").exc = NoExc) =>
                 /\ result.kind = "return"
                 /\ get_time(responses[2]).value.some
                 /\ result.value
                        = Some(Strptime(UserInfo["expiration"].s, "I").val
                                   - get_time(responses[2]).value.v)

\* C11 (as claimed): get_torrent_info, add_magnet and select_torrent_files
\* have one status boundary: each raises a status error for every status
\* of 299 or more and takes every status below 299 as success.
C11_AsClaimed ==
    /\ (op = "get_torrent_info" /\ responses[1].kind = "http") =>
           (result = StatusError(responses[1])) = (responses[1].status >= 299)
    /\ (op = "add_magnet" /\ responses[1].kind = "http") =>
           (result = StatusError(responses[1])) = (responses[1].status >= 299)
    /\ (op = "select_torrent_files" /\ responses[1].kind = "http") =>
           IF responses[1].status >= 299
           THEN result = StatusError(responses[1])
           ELSE result = Return(None)

\* C11 (amended): get_torrent_info and add_magnet raise a status error
\* that carries the response for every status of 299 or more and take
\* every status below 299 as success (they go on to the body);
\* select_torrent_files raises for every status above 299 and returns
\* normally for every status of at most 299, so that at 299 it does not
\* do as the other two.
C11_StatusBoundaries ==
    /\ (op = "get_torrent_info" /\ responses[1].kind = "http") =>
           (result = StatusError(responses[1])) = (responses[1].status >= 299)
    /\ (op = "add_magnet" /\ responses[1].kind = "http") =>
           (result = StatusError(responses[1])) = (responses[1].status >= 299)
    /\ (op = "select_torrent_files" /\ responses[1].kind = "http") =>
           IF responses[1].status > 299
           THEN result = StatusError(responses[1])
           ELSE result = Return(None)

C11_Witness ==
    /\ op = "select_torrent_files"
    /\ responses[1].kind = "http"
    /\ responses[1].status = 299
    /\ result = Return(None)

\* add_magnet was called and the add step did not fully succeed: the add
\* request was answered with a status of 299 or more, or with a status
\* below 299 and a body that is no valid {id, uri}.
AddNotSucceeded ==
    /\ op = "add_magnet"
    /\ responses[1].kind = "http"
    /\ responses[1].status >= 299 \/ ~IsIdUri(responses[1].body)

IsSelectRequest(request) ==
    request.method = "POST" /\ request.path[1] = "/torrents/selectFiles"

\* C12: when the add step did not fully succeed, add_magnet fails the
\* whole call (the status error for a status of 299 or more, the error of
\* reading the body otherwise) and sends no select-files request: the add
\* request is the only request of the call.
C12_NoSelectUnlessAddSucceeded ==
    AddNotSucceeded =>
        /\ result.kind = "raise"
        /\ IF responses[1].status >= 299
           THEN result = StatusError(responses[1])
           ELSE result.exc \in {"ValidationError", "TypeError", "JSONDecodeError"}
        /\ requests = <<Post(<<"/torrents/addMagnet">>, {<<"magnet", arg>>})>>
        /\ \A i \in 1..Len(requests) : ~IsSelectRequest(requests[i])
        /\ Len(responses) = 1

C12_Witness ==
    /\ AddNotSucceeded
    /\ responses[1].status = 200
    /\ responses[1].body.json
    /\ responses[1].body.value.type = "object"
    /\ "uri" \notin DOMAIN responses[1].body.value.fields
    /\ result = Raised("ValidationError")
    /\ Len(requests) = 1

\* add_magnet was called, the add step succeeded, and the select-files
\* request that followed failed: it was answered with a status above 299,
\* or it timed out.
SelectFailed ==
    /\ AddAnswered
    /\ Len(responses) = 2
    /\ \/ responses[2].kind = "timeout"
       \/ responses[2].kind = "http" /\ responses[2].status > 299

\* The id of the torrent the add step made.
NewId == responses[1].body.value.fields["id"].s

\* add_magnet ends with the error of the select-files request, gives no
\* {id, uri} back, and sends nothing after the select-files request: no
\* DELETE and no other request.
SelectErrorGoesUp ==
    /\ result.kind = "raise"
    /\ IF responses[2].kind = "timeout"
       THEN result = Raised("TimeoutException")
       ELSE result = StatusError(responses[2])
    /\ AddThenOneSelectAll
    /\ \A i \in 1..Len(requests) : requests[i].method # "DELETE"

\* C13 (as claimed): when the add succeeded and the select-files request
\* failed (status above 299, or timeout), add_magnet passes that error on
\* without returning the id and without a delete request, so the torrent
\* of the add step stays on the service with no files selected.
C13_AsClaimed ==
    SelectFailed => (SelectErrorGoesUp /\ remote[NewId] = "added")

\* C13 (amended): in every such call add_magnet passes the error on
\* without returning the id and without a delete request, and the torrent
\* stays on the service; it has no files selected when the select-files
\* request was answered with a status above 299; when the request timed
\* out the service may or may not have made the selection, and the client
\* does not know which.
C13_NoCompensation ==
    SelectFailed =>
        /\ SelectErrorGoesUp
        /\ remote[NewId] # "absent"
        /\ IF responses[2].kind = "http"
           THEN remote[NewId] = "added"
           ELSE remote[NewId] \in {"added", "selected"}

C13_Witness ==
    /\ SelectFailed
    /\ responses[2].kind = "http"
    /\ responses[2].status = 503
    /\ result = StatusError(responses[2])
    /\ Len(requests) = 2
    /\ remote[NewId] = "added"

====
